---- MODULE Spec2Model ----
(***************************************************************************)
(* user-agent-402: the worker entry point of src/index.js.                 *)
(*                                                                         *)
(* The model follows one request through fetch() and chargedRequest(), the *)
(* RateLimiter durable object, the PATH_CACHE key-value store and the      *)
(* billing session.  Every await of the source that touches shared state   *)
(* (cache, rate-limit storage, balances, the application handler) is one   *)
(* step of a request; requests interleave at those steps.                  *)
(*                                                                         *)
(* Strings are sequences of tokens: a pathname is its base followed by its *)
(* extensions (<<"/x", ".md">> is "/x.md"), a body is a sequence of text   *)
(* tokens, a cache key is the concatenation the source builds.             *)
(***************************************************************************)
EXTENDS Integers, Sequences, FiniteSets, TLC

\* ------------------------------------------------------------------ bounds

\* requests started in one behaviour of the concurrent specification
MaxRequests == 2
\* requests started in one behaviour of the sequential specification
MaxSeqRequests == 2
\* the clock runs from 0 to MaxClock seconds where requests follow the whole
\* pipeline, and to MaxLimiterClock seconds where they exercise the rate limiter
MaxClock == 1
MaxLimiterClock == 3
\* requests started in one behaviour of the rate limiter's specification
MaxLimiterRequests == 4
\* requests started in one behaviour of the specification of racing checks
MaxRaceRequests == 3
\* balances the billing store starts with: 0..MaxBalance
MaxBalance == 2
\* entries of a query string
MaxQueryLen == 2
MaxRedeploys == 1

\* ------------------------------------------------------------------ config

\* config, src/index.js:41-49.  The version is the default of line 42.  The
\* price, the free quota and the window are what the application exports
\* (line 48 overwrites the defaults 1, 10 and 3600 with the handler's own):
\* they are parameters of the model, small so that a positive balance below
\* the price and a full window are reached within the other bounds.
version == 1
priceCredit == 2
freeRateLimit == 2
freeRateLimitResetSeconds == 2

\* ------------------------------------------------------------------ values

\* the request slots: two requests may be in flight at the same time
Procs == {1, 2}

Null == <<"null">>

\* result.html, the template markdownToHtml fills in
resultHtml == <<"<html>", "{{result}}", "</html>">>
\* homepage.html and the README.md asset
homepageHtml == <<"<homepage>">>
readmeMd == <<"# readme">>

\* the Accept header ("" when absent)
Accepts == {"", "text/html"}

\* users of the billing store: access_token and client_reference_id
Users == {"u1"}
access_token(u) == IF u = "u1" THEN "tok1" ELSE "tok2"
client_reference_id(u) == IF u = "u1" THEN "ref1" ELSE ""

\* what stripeBalanceMiddleware resolves to (types.d.ts StripeResult):
\* a response of its own, no session, or a session with its user
StripeKinds == {"throw", "response", "nosession", "session"}

\* text bodies the application handler answers with
Bodies == {<<"A">>, <<"B">>}

\* ------------------------------------------------------------ pure helpers

\* String.prototype.endsWith on a pathname and an extension
endsWith(pathname, suffix) ==
    Len(pathname) > 1 /\ pathname[Len(pathname)] = suffix

\* accept.includes("text/html")
includesTextHtml(accept) == accept = "text/html"

getResponseFormat(accept, pathname) ==
    IF endsWith(pathname, ".html") THEN "html"
    ELSE IF endsWith(pathname, ".md") THEN "md"
    ELSE IF includesTextHtml(accept) THEN "html"
    ELSE "md"

\* pathname.replace(/\.(html|md)$/, "") under the guard of line 278
stripExtension(pathname) ==
    IF endsWith(pathname, ".html") \/ endsWith(pathname, ".md")
    THEN SubSeq(pathname, 1, Len(pathname) - 1)
    ELSE pathname

\* a query is a sequence of <<key, value>> pairs, keys and values strings of
\* characters.  The code unit order of the characters used: , 1 a b c
CharRank(c) ==
    CASE c = "," -> 1 [] c = "1" -> 2 [] c = "a" -> 3 [] c = "b" -> 4
      [] OTHER -> 5

\* the order of two strings by their code units
RECURSIVE StrLess(_, _)
StrLess(a, b) ==
    IF b = <<>> THEN FALSE
    ELSE IF a = <<>> THEN TRUE
    ELSE IF CharRank(Head(a)) # CharRank(Head(b))
         THEN CharRank(Head(a)) < CharRank(Head(b))
    ELSE StrLess(Tail(a), Tail(b))

\* Array.prototype.sort() without a comparator orders its elements by their
\* strings; the string of an entry [key, value] is "key,value"
PairString(p) == p[1] \o <<",">> \o p[2]

PairLess(p, q) == StrLess(PairString(p), PairString(q))

RECURSIVE InsertSorted(_, _)
InsertSorted(s, p) ==
    IF s = <<>> THEN <<p>>
    ELSE IF PairLess(p, Head(s)) THEN <<p>> \o s
    ELSE <<Head(s)>> \o InsertSorted(Tail(s), p)

\* a stable insertion sort: equal pairs keep their order
RECURSIVE SortParams(_)
SortParams(s) ==
    IF s = <<>> THEN <<>>
    ELSE InsertSorted(SortParams(SubSeq(s, 1, Len(s) - 1)), s[Len(s)])

\* the percent-encoding of URLSearchParams.toString(): of the characters
\* used only the comma is encoded
RECURSIVE Encode(_)
Encode(str) ==
    IF str = <<>> THEN <<>>
    ELSE <<IF Head(str) = "," THEN "%2C" ELSE Head(str)>> \o Encode(Tail(str))

\* URLSearchParams.toString(): k=v joined by &
RECURSIVE QueryString(_)
QueryString(s) ==
    IF s = <<>> THEN <<>>
    ELSE Encode(s[1][1]) \o <<"=">> \o Encode(s[1][2])
         \o (IF Len(s) > 1 THEN <<"&">> ELSE <<>>)
         \o QueryString(Tail(s))

\* mutant: the version is left out of the key
createCacheKeyNoVersion(v, pathname, searchParams, ext) ==
    LET query == QueryString(SortParams(searchParams))
        path == IF query # <<>> THEN pathname \o <<"?">> \o query ELSE pathname
    IN  <<ext, ":">> \o path

\* line 171 with config.version = v
createCacheKeyV(v, pathname, searchParams, ext) ==
    LET query == QueryString(SortParams(searchParams))
        path == IF query # <<>> THEN pathname \o <<"?">> \o query ELSE pathname
    IN  <<ToString(v), ":", ext, ":">> \o path

createCacheKey(pathname, searchParams, ext) ==
    createCacheKeyV(version, pathname, searchParams, ext)

\* resultHtml.replace("{{result}}", markdown): the first occurrence
RECURSIVE ReplaceFirst(_, _, _)
ReplaceFirst(s, pat, by) ==
    IF s = <<>> THEN <<>>
    ELSE IF Head(s) = pat THEN by \o Tail(s)
    ELSE <<Head(s)>> \o ReplaceFirst(Tail(s), pat, by)

markdownToHtml(markdown) == ReplaceFirst(resultHtml, "{{result}}", markdown)

ContentType(ext) ==
    IF ext = "html" THEN "text/html; charset=utf-8"
    ELSE "text/markdown; charset=utf-8"

\* requests.filter((timestamp) => timestamp > windowStart)
\* mutant: a timestamp exactly one window old still counts
RECURSIVE FilterRecentInclusive(_, _)
FilterRecentInclusive(requests, windowStart) ==
    IF requests = <<>> THEN <<>>
    ELSE (IF Head(requests) >= windowStart THEN <<Head(requests)>> ELSE <<>>)
         \o FilterRecentInclusive(Tail(requests), windowStart)

RECURSIVE FilterRecent(_, _)
FilterRecent(requests, windowStart) ==
    IF requests = <<>> THEN <<>>
    ELSE (IF Head(requests) > windowStart THEN <<Head(requests)>> ELSE <<>>)
         \o FilterRecent(Tail(requests), windowStart)

\* Math.min(...recentRequests) of a non-empty list
RECURSIVE MinOf(_)
MinOf(s) ==
    IF Len(s) = 1 THEN s[1]
    ELSE LET m == MinOf(Tail(s)) IN IF s[1] < m THEN s[1] ELSE m

resetWindow == freeRateLimitResetSeconds * 1000


\* ------------------------------------------------------------------- state

VARIABLES
    clock,      \* seconds since the start; Date.now() is clock * 1000
    storage,    \* RateLimiter storage: "requests:<clientId>" -> timestamps
    kv,         \* PATH_CACHE: cache key -> [value, metadata]
    balance,    \* the billing store: user -> balance
    hasShouldRefresh, \* whether the application exports shouldRefresh
    pc,         \* where each request slot stands
    req,        \* the request of each slot and what the middleware resolved
    loc,        \* the locals of fetch / chargedRequest of each slot
    resp,       \* what fetch returned to the client, once it has
    log,        \* the calls each request has made so far, in order
    admitted,   \* history: per identity, the times of the checks answered
                \* allowed: true
    nreq,       \* requests started
    deployed,   \* config.version of the deployment that takes new requests
    lastDenied  \* history: per identity, the resetTime of the last denied
                \* check since the last allowed one, 0 when there is none

vars ==
    <<clock, storage, kv, balance, hasShouldRefresh, pc, req, loc, resp, log,
      admitted, nreq, deployed, lastDenied>>

DateNow == clock * 1000

\* the identity keys the modelled callers can have
ClientIds == {"ref1", "tok1", "ip1", "anonymous"}

NoStripe == [kind |-> "nosession", userClient |-> FALSE, user |-> "", balance |-> 0]
NoReq == [method |-> "", pathname |-> <<>>, query |-> <<>>, accept |-> "",
          ip |-> "", stripe |-> NoStripe]
NoRl == [present |-> FALSE, allowed |-> FALSE, remaining |-> 0, resetTime |-> 0]
NoHres == [status |-> 0, body |-> <<>>, xprice |-> "", private |-> FALSE]
NoLoc == [ext |-> "", pathname |-> <<>>, cached |-> Null, clientId |-> "",
          now |-> 0, recent |-> <<>>, rl |-> NoRl, hres |-> NoHres,
          refresh |-> FALSE, pending |-> {}, putTime |-> 0, version |-> 0]
NoResp == [kind |-> "none", status |-> 0, body |-> <<>>, xcache |-> "",
           cors |-> FALSE, ctype |-> "", rl |-> NoRl]

Ev(e, k, n) == [e |-> e, k |-> k, n |-> n]

\* new Response(body, {status, headers}) as fetch returns it
Response(status, body, xcache, ctype, rl) ==
    [kind |-> "response", status |-> status, body |-> body, xcache |-> xcache,
     cors |-> FALSE, ctype |-> ctype, rl |-> rl]

addCorsHeaders(response) == [response EXCEPT !.cors = TRUE]

\* the catch block of fetch, lines 416-422
ErrorResponse == addCorsHeaders(Response(500, <<"Error">>, "", "", NoRl))

\* createPaymentRequiredResponse: status 402, the rate-limit data embedded
\* in the content when given
createPaymentRequiredResponse(rateLimitData, ext) ==
    Response(402, <<"Payment Required">>, "", ContentType(ext), rateLimitData)

\* a fetch whose promise rejected: no response reaches the client
Rejected == [NoResp EXCEPT !.kind = "rejected"]

\* ------------------------------------------------------- decisions of fetch

\* mutant: the balance is not looked at
IsPayerAnyBalance(s) == s.kind = "session" /\ s.userClient

\* lines 288-292: a session of a user client with a positive balance
IsPayer(s) == s.kind = "session" /\ s.userClient /\ s.balance > 0

\* lines 354-362: user is the session's user only for a user client
HasUser(s) == s.kind = "session" /\ s.userClient

clientIdOf(r) ==
    IF HasUser(r.stripe)
    THEN (IF client_reference_id(r.stripe.user) # ""
          THEN client_reference_id(r.stripe.user)
          ELSE access_token(r.stripe.user))
    ELSE (IF r.ip # "" THEN r.ip ELSE "anonymous")

\* mutant: callers without a user skip the rate limiter
NeedsRateLimitUsersOnly(s) == HasUser(s) /\ s.balance <= 0

\* mutant: the balance is compared with the price
NeedsRateLimitBelowPrice(s) == ~HasUser(s) \/ s.balance < priceCredit

\* line 365: if (!user || user.balance <= 0)
NeedsRateLimit(s) == ~HasUser(s) \/ s.balance <= 0

\* mutant: only an empty balance is insufficient
InsufficientNonPositive(s) == HasUser(s) /\ s.balance <= 0

\* line 397: if (user && user.balance < config.priceCredit)
Insufficient(s) == HasUser(s) /\ s.balance < priceCredit

\* mutant: no check is ever denied
OverLimitNever(recentRequests) == FALSE

\* mutant: > for >=
OverLimitOffByOne(recentRequests) == Len(recentRequests) > freeRateLimit

\* line 102: recentRequests.length >= config.freeRateLimit
OverLimit(recentRequests) == Len(recentRequests) >= freeRateLimit

\* mutant: the charge is left out of the response path
ShouldChargeNever(s, h) == FALSE

\* mutant: the status is not looked at
ShouldChargeAnyStatus(s, h) == s.kind = "session" /\ s.user # ""

\* line 452: ctx.user && stripeResult.session && response.status === 200
ShouldCharge(s, h) == s.kind = "session" /\ s.user # "" /\ h.status = 200

\* mutant: every status below 500 is cached
ShouldCacheBelow500(h) == h.status < 500

\* line 462: response.status === 200 && env.PATH_CACHE
ShouldCache(h) == h.status = 200

\* lines 444-448: the X-Price header when present and numeric
IsNumeric(x) == x \in {"0", "3"}
NumberOf(x) == IF x = "3" THEN 3 ELSE 0
\* mutant: the header is not looked at
effectivePriceDefault(h) == priceCredit

effectivePrice(h) ==
    IF h.xprice # "" /\ IsNumeric(h.xprice) THEN NumberOf(h.xprice)
    ELSE priceCredit

\* if (cached.value)
Truthy(v) == v # Null /\ v # <<>>

\* env.PATH_CACHE.getWithMetadata(key)
NoMetadata == [timestamp |-> -1]
getWithMetadata(key) ==
    IF key \in DOMAIN kv THEN kv[key]
    ELSE [value |-> Null, metadata |-> NoMetadata]

\* env.PATH_CACHE.put(key, value, {metadata})
KvPut(store, key, value, metadata) ==
    [k \in DOMAIN store \cup {key} |->
        IF k = key THEN [value |-> value, metadata |-> metadata] ELSE store[k]]

\* ------------------------------------------------------------------ inputs

\* the requests a client sends; a preflight is answered before anything of
\* it is read
Req(method, pathname, accept) ==
    [method |-> method, pathname |-> pathname, query |-> <<>>,
     accept |-> accept, ip |-> "ip1"]

Requests ==
    {Req(m, <<"/x">>, a) : m \in {"GET", "POST"}, a \in Accepts}
    \cup {Req(m, <<"/x", ".md">>, "text/html") : m \in {"GET", "POST"}}
    \cup {Req(m, <<"/x", ".html">>, "") : m \in {"GET", "POST"}}
    \cup {Req("GET", <<"/">>, a) : a \in Accepts}
    \cup {Req("OPTIONS", <<"/x">>, "")}

\* the requests that exercise the rate limiter: one path, never answered
\* from the cache
FreeRequests == {Req("POST", <<"/x">>, "")}

\* the requests that race: the same path, query and format
RaceRequests == {Req("GET", <<"/x">>, "")}

\* what stripeBalanceMiddleware resolves to for a request: it throws, answers
\* the request itself, resolves no session, or resolves a session whose user
\* carries the balance the billing store holds now
StripeResults(kinds) ==
    {[NoStripe EXCEPT !.kind = k] : k \in kinds \ {"session"}}
    \cup {[kind |-> "session", userClient |-> c, user |-> u, balance |-> balance[u]] :
            c \in BOOLEAN, u \in IF "session" \in kinds THEN Users ELSE {}}

\* what the application handler answers: status, body, X-Price header,
\* Cache-Control: private
HandlerResponses ==
    {[status |-> 200, body |-> b, xprice |-> "", private |-> FALSE] : b \in Bodies}
    \cup {[status |-> 200, body |-> <<"A">>, xprice |-> x, private |-> FALSE] :
            x \in {"3", "abc"}}
    \cup {[status |-> 200, body |-> <<"A">>, xprice |-> "", private |-> TRUE],
          [status |-> 404, body |-> <<"not found">>, xprice |-> "", private |-> FALSE]}

\* what the handler answers to the requests that race
RaceResponses ==
    {h \in HandlerResponses : h.xprice = "" /\ ~h.private}

\* what the handler answers to the requests that exercise the rate limiter
FreeResponses ==
    {h \in HandlerResponses : h.body # <<"B">> /\ h.xprice = "" /\ ~h.private}

\* the entries of a query string: among them a,b=c and a=b,c
QueryPairs ==
    {<<<<"a", ",", "b">>, <<"c">>>>, <<<<"a">>, <<"b", ",", "c">>>>,
     <<<<"a">>, <<"1">>>>, <<<<"b">>, <<"1">>>>}

\* query strings of up to MaxQueryLen entries
Queries == UNION {[1..n -> QueryPairs] : n \in 0..MaxQueryLen}

\* GET requests of one path and format with a query string
QueryRequests ==
    {[Req("GET", <<"/x">>, "") EXCEPT !.query = q] : q \in Queries}

\* the requests of a pair, an earlier and a later one for the same logical
\* path: GET in either format, with and without a format suffix
PairRequests == {r \in Requests : r.method = "GET" /\ r.pathname # <<"/">>}

\* what the handler answers to the requests of a pair: as to any request, or
\* 200 with an empty body
PairResponses ==
    HandlerResponses
    \cup {[status |-> 200, body |-> <<>>, xprice |-> "", private |-> FALSE]}

\* GET requests across deployments: a path with and without suffixes, a
\* suffix after a suffix, and a query string
VersionRequests ==
    {Req("GET", <<"/x">>, a) : a \in Accepts}
    \cup {Req("GET", <<"/x", ".md">>, ""), Req("GET", <<"/x", ".md", ".html">>, "")}
    \cup {[Req("GET", <<"/x">>, "") EXCEPT !.query = <<<<<<"a">>, <<"1">>>>>>]}

\* ------------------------------------------------------------------- steps

\* one step of slot p: its position, locals, response and call log
Set(p, npc, nloc, nresp, nlog) ==
    /\ pc' = [pc EXCEPT ![p] = npc]
    /\ loc' = [loc EXCEPT ![p] = nloc]
    /\ resp' = [resp EXCEPT ![p] = nresp]
    /\ log' = [log EXCEPT ![p] = nlog]

Responded(r) == Ev("respond", <<>>, r.status)

\* fetch returns response r and nothing of the request is left to run
Finish(p, nloc, r, nlog) ==
    Set(p, "done", nloc, r, nlog \o <<Responded(r)>>)

\* lines 396-415: the balance check, then the call of chargedRequest
BalanceCheck(p, s, nloc, nlog) ==
    IF Insufficient(s)
    THEN Finish(p, nloc,
                addCorsHeaders(createPaymentRequiredResponse(NoRl, nloc.ext)),
                nlog)
    ELSE Set(p, "handler", nloc, NoResp, nlog)

\* lines 353-367: admission control up to the call of the rate limiter
Admission(p, s, nloc, nlog) ==
    IF NeedsRateLimit(s)
    THEN Set(p, "rateLimitGet", nloc, NoResp, nlog)
    ELSE BalanceCheck(p, s, nloc, nlog)

WithStripe(r, s) ==
    [method |-> r.method, pathname |-> r.pathname, query |-> r.query,
     accept |-> r.accept, ip |-> r.ip, stripe |-> s]

\* fetch, lines 250-286: preflight, the billing middleware, the format and
\* the pathname without its extension
fetchStart(p, requests, kinds) ==
    /\ nreq' = nreq + 1
    /\ UNCHANGED <<clock, storage, kv, balance, hasShouldRefresh, admitted, deployed,
                 lastDenied>>
    /\ \E r \in requests :
        IF r.method = "OPTIONS"
        THEN /\ req' = [req EXCEPT ![p] = WithStripe(r, NoStripe)]
             /\ Finish(p, NoLoc,
                       addCorsHeaders(Response(204, <<>>, "", "", NoRl)), <<>>)
        ELSE \E s \in StripeResults(kinds) :
             /\ req' = [req EXCEPT ![p] = WithStripe(r, s)]
             /\ LET ext == getResponseFormat(r.accept, r.pathname)
                    nloc == [NoLoc EXCEPT !.ext = ext,
                                          !.version = deployed,
                                          !.pathname = stripExtension(r.pathname),
                                          !.clientId = clientIdOf(WithStripe(r, s))]
                    mw == <<Ev("middleware", <<>>, 0)>>
                IN  CASE s.kind = "throw" -> Finish(p, nloc, ErrorResponse, mw)
                      [] s.kind = "response" ->
                           Finish(p, nloc,
                                  addCorsHeaders(
                                      Response(200, <<"stripe">>, "", "", NoRl)),
                                  mw)
                      [] OTHER ->
                           IF r.method = "GET"
                           THEN Set(p, "cacheGet", nloc, NoResp, mw)
                           ELSE Admission(p, s, nloc, mw)

\* a request arrives in a free slot; of two free slots the lower one is used
fetchBegin(p, limit, requests, kinds) ==
    /\ pc[p] \in {"idle", "done"}
    /\ \A q \in Procs : q < p => pc[q] \notin {"idle", "done"}
    /\ nreq < limit
    /\ fetchStart(p, requests, kinds)

\* a request arrives after the requests of the lower slots, their detached
\* work included, have completed; a slot is used once, so that what the
\* earlier request did stays in view
fetchAfter(p, requests, kinds) ==
    /\ pc[p] = "idle"
    /\ \A q \in Procs : q < p => pc[q] = "done"
    /\ fetchStart(p, requests, kinds)

\* mutant: the refresh is scheduled whatever the predicate answers
SchedulesRefreshAlways(ok) == TRUE

\* line 306: if (shouldRefreshResponse.ok)
SchedulesRefresh(ok) == ok

\* mutant: the cached value is rendered once more
hitResponseRendered(value, ext) ==
    addCorsHeaders(Response(200, IF ext = "html" THEN markdownToHtml(value) ELSE value,
                            "HIT", ContentType(ext), NoRl))

\* mutant: the hit is returned as built
hitResponseNoCors(value, ext) ==
    Response(200, value, "HIT", ContentType(ext), NoRl)

\* the response of a cache hit, lines 319-329
hitResponse(value, ext) ==
    addCorsHeaders(Response(200, value, "HIT", ContentType(ext), NoRl))

\* lines 288-298: the refresh predicate is consulted on a hit
ConsultsShouldRefresh(s) == IsPayer(s) /\ hasShouldRefresh

\* fetch, lines 283-351: the cache lookup of a GET, the hit (with the refresh
\* decision for a payer) and the landing page
cacheGet(p) ==
    /\ pc[p] = "cacheGet"
    /\ UNCHANGED <<clock, storage, kv, balance, hasShouldRefresh, req, admitted, nreq,
                   deployed, lastDenied>>
    /\ LET s == req[p].stripe
           ext == loc[p].ext
           cacheKey == createCacheKeyV(loc[p].version, loc[p].pathname, req[p].query, ext)
           cached == getWithMetadata(cacheKey)
           nloc == [loc[p] EXCEPT !.cached = cached.value]
           got == log[p] \o <<Ev("kvget", cacheKey, 0)>>
           hit == hitResponse(cached.value, ext)
       IN  \/ Finish(p, loc[p], ErrorResponse,
                     log[p] \o <<Ev("kvFail", cacheKey, 0)>>)
           \/ /\ Truthy(cached.value)
              /\ ~ConsultsShouldRefresh(s)
              /\ Finish(p, nloc, hit, got)
           \/ /\ Truthy(cached.value)
              /\ ConsultsShouldRefresh(s)
              /\ \/ Finish(p, nloc, ErrorResponse,
                            got \o <<Ev("shouldRefresh", <<>>,
                                        cached.metadata.timestamp),
                                     Ev("shouldRefreshThrow", <<>>, 0)>>)
                 \/ \E ok \in BOOLEAN :
                      LET asked == got \o <<Ev("shouldRefresh",
                                               <<IF ok THEN "ok" ELSE "not ok">>,
                                               cached.metadata.timestamp)>>
                      IN  IF SchedulesRefresh(ok)
                          THEN Set(p, "handler", [nloc EXCEPT !.refresh = TRUE],
                                   hit, asked \o <<Responded(hit)>>)
                          ELSE Finish(p, nloc, hit, asked)
           \/ /\ ~Truthy(cached.value)
              /\ loc[p].pathname = <<"/">>
              /\ \/ Finish(p, nloc,
                           addCorsHeaders(
                               Response(200,
                                        IF ext = "html" THEN homepageHtml
                                        ELSE readmeMd,
                                        "", ContentType(ext), NoRl)),
                           got)
                 \/ /\ ext # "html"
                    /\ Finish(p, nloc, ErrorResponse,
                              got \o <<Ev("assetsFail", <<>>, 0)>>)
           \/ /\ ~Truthy(cached.value)
              /\ loc[p].pathname # <<"/">>
              /\ Admission(p, s, nloc, got)

\* RateLimiter.fetch, lines 88-113: the stored timestamps are read and
\* filtered; a full window is answered allowed: false
rateLimitGet(p) ==
    /\ pc[p] = "rateLimitGet"
    /\ UNCHANGED <<clock, storage, kv, balance, hasShouldRefresh, req, admitted, nreq,
                   deployed>>
    /\ LET now == DateNow
           windowStart == now - resetWindow
           requests == storage[loc[p].clientId]
           recentRequests == FilterRecent(requests, windowStart)
           got == log[p] \o <<Ev("rateLimitGet", <<loc[p].clientId>>, now)>>
           denied == [present |-> TRUE, allowed |-> FALSE, remaining |-> 0,
                      resetTime |-> MinOf(recentRequests) + resetWindow]
       IN  \/ /\ UNCHANGED lastDenied
              /\ Finish(p, loc[p], ErrorResponse,
                        log[p] \o <<Ev("rateLimitFail", <<loc[p].clientId>>, now)>>)
           \/ IF OverLimit(recentRequests)
              THEN /\ lastDenied' = [lastDenied EXCEPT
                                        ![loc[p].clientId] = denied.resetTime]
                   /\ Finish(p, [loc[p] EXCEPT !.now = now,
                                               !.recent = recentRequests,
                                               !.rl = denied],
                             addCorsHeaders(
                                 createPaymentRequiredResponse(denied, loc[p].ext)),
                             got)
              ELSE /\ UNCHANGED lastDenied
                   /\ Set(p, "rateLimitPut",
                          [loc[p] EXCEPT !.now = now, !.recent = recentRequests],
                          NoResp, got)

\* RateLimiter.fetch, lines 115-128, then fetch, lines 377-415: the current
\* request is appended and persisted, the answer is allowed: true
rateLimitPut(p) ==
    /\ pc[p] = "rateLimitPut"
    /\ UNCHANGED <<clock, kv, balance, hasShouldRefresh, req, nreq, deployed>>
    /\ admitted' = [admitted EXCEPT ![loc[p].clientId] = Append(@, loc[p].now)]
    /\ lastDenied' = [lastDenied EXCEPT ![loc[p].clientId] = 0]
    /\ LET recentRequests == Append(loc[p].recent, loc[p].now)
           allowed == [present |-> TRUE, allowed |-> TRUE,
                       remaining |-> freeRateLimit - Len(recentRequests),
                       resetTime |-> loc[p].now + resetWindow]
       IN  /\ storage' = [storage EXCEPT ![loc[p].clientId] = recentRequests]
           /\ BalanceCheck(p, req[p].stripe, [loc[p] EXCEPT !.rl = allowed],
                           log[p] \o <<Ev("rateLimitPut", <<loc[p].clientId>>,
                                          loc[p].now)>>)

\* chargedRequest's promise rejected: on the miss path fetch returned that
\* promise (line 411, not awaited inside the try), so fetch rejects; on the
\* refresh path the promise was handed to ctx.waitUntil and the client
\* already has its response
Throw(p, nlog) ==
    Set(p, "done", loc[p], IF loc[p].refresh THEN resp[p] ELSE Rejected, nlog)

\* chargedRequest, lines 461-494: the cache writes are handed to
\* ctx.waitUntil and the response is built
afterCharge(p, nloc, nlog) ==
    LET h == nloc.hres
        pending == IF ShouldCache(h) THEN {"md", "html"} ELSE {}
        finalContent == IF nloc.ext = "html" THEN markdownToHtml(h.body)
                        ELSE h.body
        finalResponse == addCorsHeaders(
                             Response(h.status, finalContent, "MISS",
                                      ContentType(nloc.ext), NoRl))
    IN  Set(p, IF pending = {} THEN "done" ELSE "cachePut",
            [nloc EXCEPT !.pending = pending, !.putTime = DateNow],
            IF nloc.refresh THEN resp[p] ELSE finalResponse,
            IF nloc.refresh THEN nlog ELSE nlog \o <<Responded(finalResponse)>>)

\* chargedRequest, lines 434-452: ctx.user is set from the session and the
\* application handler is called with the request as it came in
handlerFetch(p, responses) ==
    /\ pc[p] = "handler"
    /\ UNCHANGED <<clock, storage, kv, balance, hasShouldRefresh, req, admitted, nreq,
                   deployed, lastDenied>>
    /\ LET s == req[p].stripe
       IN  IF s.kind # "session"
           THEN Throw(p, log[p] \o <<Ev("typeError", <<>>, 441)>>)
           ELSE \/ Throw(p, log[p] \o <<Ev("handlerThrow", req[p].pathname, 0)>>)
                \/ \E h \in responses :
                     LET nloc == [loc[p] EXCEPT !.hres = h]
                         nlog == log[p] \o <<Ev("handler", req[p].pathname,
                                                h.status)>>
                     IN  IF ShouldCharge(s, h)
                         THEN Set(p, "charge", nloc, resp[p], nlog)
                         ELSE afterCharge(p, nloc, nlog)

\* chargedRequest, lines 452-459: stripeResult.session.charge(priceCredit,
\* true) debits the balance, declines, or fails
charge(p) ==
    /\ pc[p] = "charge"
    /\ UNCHANGED <<clock, storage, kv, hasShouldRefresh, req, admitted, nreq, deployed,
                   lastDenied>>
    /\ LET user == req[p].stripe.user
           amount == effectivePrice(loc[p].hres)
           nlog == log[p] \o <<Ev("charge", <<user>>, amount)>>
       IN  \/ /\ balance' = [balance EXCEPT ![user] = @ - amount]
              /\ afterCharge(p, loc[p], nlog)
           \/ /\ UNCHANGED balance
              /\ afterCharge(p, loc[p], nlog)
           \/ /\ UNCHANGED balance
              /\ Throw(p, nlog)

\* the key chargedRequest writes format ext under, lines 436-437 and 463-464:
\* from url.pathname of the request
writeKey(p, ext) ==
    createCacheKeyV(loc[p].version, req[p].pathname, req[p].query, ext)

\* chargedRequest, lines 467-478: one of the two puts handed to ctx.waitUntil
\* completes
cachePut(p) ==
    /\ pc[p] = "cachePut"
    /\ UNCHANGED <<clock, storage, balance, hasShouldRefresh, req, resp,
                   admitted, nreq, deployed, lastDenied>>
    /\ \E ext \in loc[p].pending :
         LET resultText == loc[p].hres.body
             content == IF ext = "html" THEN markdownToHtml(resultText)
                        ELSE resultText
             key == writeKey(p, ext)
             left == loc[p].pending \ {ext}
         IN  /\ kv' = KvPut(kv, key, content, [timestamp |-> loc[p].putTime])
             /\ pc' = [pc EXCEPT ![p] = IF left = {} THEN "done" ELSE "cachePut"]
             /\ loc' = [loc EXCEPT ![p].pending = left]
             /\ log' = [log EXCEPT ![p] = @ \o <<Ev("put", key, loc[p].putTime)>>]

\* time passes
Tick(limit) ==
    /\ clock < limit
    /\ clock' = clock + 1
    /\ UNCHANGED <<storage, kv, balance, hasShouldRefresh, pc, req, loc, resp,
                   log, admitted, nreq, deployed, lastDenied>>

\* the application is deployed again with the next config.version (line 42);
\* requests under way finish in the deployment that took them
Redeploy ==
    /\ deployed < version + MaxRedeploys
    /\ deployed' = deployed + 1
    /\ UNCHANGED <<clock, storage, kv, balance, hasShouldRefresh, pc, req, loc,
                   resp, log, admitted, nreq, lastDenied>>

\* --------------------------------------------------------- specifications

Init ==
    /\ clock = 0
    /\ storage = [c \in ClientIds |-> <<>>]
    /\ kv = [k \in {} |-> [value |-> Null, metadata |-> NoMetadata]]
    /\ balance \in [Users -> 0..MaxBalance]
    /\ hasShouldRefresh \in BOOLEAN
    /\ pc = [p \in Procs |-> "idle"]
    /\ req = [p \in Procs |-> NoReq]
    /\ loc = [p \in Procs |-> NoLoc]
    /\ resp = [p \in Procs |-> NoResp]
    /\ log = [p \in Procs |-> <<>>]
    /\ admitted = [c \in ClientIds |-> <<>>]
    /\ nreq = 0
    /\ deployed = version
    /\ lastDenied = [c \in ClientIds |-> 0]

\* requests of two slots interleave at every step
Next ==
    \/ Tick(MaxClock)
    \/ \E p \in Procs :
        \/ fetchBegin(p, MaxRequests, RaceRequests, {"nosession", "session"})
        \/ cacheGet(p)
        \/ rateLimitGet(p)
        \/ rateLimitPut(p)
        \/ handlerFetch(p, RaceResponses)
        \/ charge(p)
        \/ cachePut(p)

Spec == Init /\ [][Next]_vars

\* one request at a time: the next starts when the previous one, its
\* detached work included, has completed
SeqNext ==
    \/ Tick(MaxClock)
    \/ fetchBegin(1, MaxSeqRequests, Requests, StripeKinds)
    \/ cacheGet(1)
    \/ rateLimitGet(1)
    \/ rateLimitPut(1)
    \/ handlerFetch(1, HandlerResponses)
    \/ charge(1)
    \/ cachePut(1)

SeqSpec == Init /\ [][SeqNext]_vars

\* the requests that exercise the rate limiter, one at a time, over a clock
\* that runs past the window
LimiterNext ==
    \/ Tick(MaxLimiterClock)
    \/ fetchBegin(1, MaxLimiterRequests, FreeRequests, {"nosession", "session"})
    \/ rateLimitGet(1)
    \/ rateLimitPut(1)
    \/ handlerFetch(1, FreeResponses)
    \/ charge(1)
    \/ cachePut(1)

\* these requests are never looked up in the cache: shouldRefresh plays no
\* part, and the application is one that does not export it
LimiterInit == Init /\ ~hasShouldRefresh

LimiterSpec == LimiterInit /\ [][LimiterNext]_vars

\* the same requests in two slots: the rate limiter's get and put of two
\* checks interleave
RaceNext ==
    \/ Tick(MaxClock)
    \/ \E p \in Procs :
        \/ fetchBegin(p, MaxRaceRequests, FreeRequests, {"nosession", "session"})
        \/ rateLimitGet(p)
        \/ rateLimitPut(p)
        \/ handlerFetch(p, {h \in FreeResponses : h.status # 200})

RaceSpec == LimiterInit /\ [][RaceNext]_vars

\* a pair of requests, the later one started when the earlier one, its
\* detached work included, has completed; each keeps its slot
PairNext ==
    \/ Tick(MaxClock)
    \/ \E p \in Procs :
        \/ fetchAfter(p, PairRequests, {"nosession", "session"})
        \/ cacheGet(p)
        \/ rateLimitGet(p)
        \/ rateLimitPut(p)
        \/ handlerFetch(p, PairResponses)
        \/ charge(p)
        \/ cachePut(p)

PairSpec == Init /\ [][PairNext]_vars

\* requests with query strings, up to their cache lookup
QueryNext ==
    \E p \in Procs :
        \/ fetchBegin(p, MaxRequests, QueryRequests, {"session"})
        \/ cacheGet(p)

QuerySpec == Init /\ [][QueryNext]_vars

\* a pair of GET requests, one after the other, with deployments of a new
\* version at any moment
VersionNext ==
    \/ Redeploy
    \/ \E p \in Procs :
        \/ fetchAfter(p, VersionRequests, {"session"})
        \/ cacheGet(p)
        \/ rateLimitGet(p)
        \/ rateLimitPut(p)
        \/ handlerFetch(p, RaceResponses)
        \/ charge(p)
        \/ cachePut(p)

VersionSpec == Init /\ [][VersionNext]_vars

\* -------------------------------------------------------------- vocabulary

\* the calls request p has made so far
Events(p) == {log[p][i].e : i \in 1..Len(log[p])}

HandlerEvents == {"handler", "handlerThrow"}
LimiterEvents == {"rateLimitGet", "rateLimitPut", "rateLimitFail"}

\* an authenticated payer with a positive balance
AuthenticatedPayer(s) == s.kind = "session" /\ s.userClient /\ s.balance > 0

\* the key the gateway looks request r up under: the path without its
\* extension, the sorted query, the format, the version
LookupKey(r, ext) == createCacheKey(stripExtension(r.pathname), r.query, ext)

\* request p went past the cache lookup and the landing page to admission
\* control
ReachedAdmission(p) ==
    /\ req[p].method \in {"GET", "POST"}
    /\ req[p].stripe.kind \in {"session", "nosession"}
    /\ req[p].method = "GET" =>
         /\ "kvget" \in Events(p)
         /\ ~Truthy(loc[p].cached)
         /\ stripExtension(req[p].pathname) # <<"/">>

\* the checks of identity c answered allowed: true in the window that ends
\* at time t
WindowCount(c, t) ==
    Cardinality({i \in DOMAIN admitted[c] :
                    admitted[c][i] > t - resetWindow /\ admitted[c][i] <= t})

\* ------------------------------------------------------------------ claims

\* C1: a GET whose cache key holds a value, by a caller who is not an
\* authenticated payer with a positive balance, is answered with the stored
\* value and X-Cache: HIT; the request calls neither the handler nor
\* shouldRefresh, the rate limiter, charge or a cache put.
C1_KvFirstHit ==
    \A p \in Procs :
        LET r == req[p]
            key == LookupKey(r, getResponseFormat(r.accept, r.pathname))
        IN  (/\ r.method = "GET"
             /\ "kvget" \in Events(p)
             /\ Truthy(loc[p].cached)
             /\ ~AuthenticatedPayer(r.stripe))
            => /\ pc[p] = "done"
               /\ key \in DOMAIN kv
               /\ resp[p].kind = "response"
               /\ resp[p].status = 200
               /\ resp[p].body = kv[key].value
               /\ resp[p].xcache = "HIT"
               /\ Events(p) \cap (HandlerEvents \cup LimiterEvents
                                  \cup {"shouldRefresh", "charge", "put"}) = {}

\* C1 witness: a user client with no balance gets a hit although the
\* application exports shouldRefresh
C1_Witness ==
    \E p \in Procs :
        /\ req[p].method = "GET"
        /\ Truthy(loc[p].cached)
        /\ req[p].stripe.kind = "session"
        /\ req[p].stripe.userClient
        /\ req[p].stripe.balance <= 0
        /\ hasShouldRefresh
        /\ resp[p].xcache = "HIT"

\* C2: after a request that reached the handler and got 200, once its cache
\* writes have completed, the lookup keys of the same path, query and version
\* hold the handler's body (md) and its rendering (html).
C2_DualFormatPopulation ==
    \A p \in Procs :
        (/\ pc[p] = "done"
         /\ "handler" \in Events(p)
         /\ loc[p].hres.status = 200
         /\ Cardinality({i \in 1..Len(log[p]) : log[p][i].e = "put"}) = 2)
        => LET md == LookupKey(req[p], "md")
               html == LookupKey(req[p], "html")
           IN  /\ md \in DOMAIN kv
               /\ html \in DOMAIN kv
               /\ kv[md].value = loc[p].hres.body
               /\ kv[html].value = markdownToHtml(loc[p].hres.body)

\* C3: charge is only ever called after the handler answered 200, on the miss
\* path and on the refresh path.
C3_NoChargeWithoutSuccess ==
    \A p \in Procs : \A i \in 1..Len(log[p]) :
        log[p][i].e = "charge"
        => /\ \E j \in 1..(i - 1) : log[p][j].e = "handler" /\ log[p][j].n = 200
           /\ loc[p].hres.status = 200

\* C3 witness: a background refresh whose handler call answered 404 has
\* completed without a charge
C3_Witness ==
    \E p \in Procs :
        /\ pc[p] = "done"
        /\ loc[p].refresh
        /\ loc[p].hres.status = 404
        /\ "handler" \in Events(p)
        /\ "charge" \notin Events(p)

\* C4: a request whose handler answered with a status other than 200 makes
\* no cache put, for either format.
C4_NoCacheWriteWithoutSuccess ==
    \A p \in Procs :
        ("handler" \in Events(p) /\ loc[p].hres.status # 200)
        => /\ "put" \notin Events(p)
           /\ loc[p].pending = {}
           /\ pc[p] = "done"

\* C4 witness: a handler answer of 404 reached the client and the cache is
\* still empty
C4_Witness ==
    \E p \in Procs :
        /\ pc[p] = "done"
        /\ "handler" \in Events(p)
        /\ loc[p].hres.status = 404
        /\ resp[p].status = 404
        /\ DOMAIN kv = {}

\* C5: a handler response marked Cache-Control: private is never written to
\* the cache.
C5_PrivateNeverCached ==
    \A p \in Procs : loc[p].hres.private => "put" \notin Events(p)

\* C6: for a caller who is not a payer with a positive balance, the handler
\* is called only after the rate limiter answered allowed: true for the
\* caller's identity key; a denied check is answered 402 with remaining 0 and
\* the reset time, without a handler call, a charge or a cache put.
C6_FreeTierAdmission ==
    \A p \in Procs :
        ~AuthenticatedPayer(req[p].stripe)
        => /\ (Events(p) \cap HandlerEvents # {})
              => /\ loc[p].rl.present
                 /\ loc[p].rl.allowed
                 /\ \E i \in 1..Len(log[p]) :
                       /\ log[p][i].e = "rateLimitPut"
                       /\ log[p][i].k = <<clientIdOf(req[p])>>
           /\ (loc[p].rl.present /\ ~loc[p].rl.allowed)
              => /\ pc[p] = "done"
                 /\ resp[p].status = 402
                 /\ resp[p].rl.present
                 /\ resp[p].rl.remaining = 0
                 /\ resp[p].rl.resetTime = loc[p].rl.resetTime
                 /\ resp[p].rl.resetTime > loc[p].now
                 /\ Events(p) \cap (HandlerEvents
                                    \cup {"typeError", "charge", "put"}) = {}

\* C6 witness: a check was denied and the request answered 402
C6_Witness ==
    \E p \in Procs :
        /\ ~AuthenticatedPayer(req[p].stripe)
        /\ loc[p].rl.present
        /\ ~loc[p].rl.allowed
        /\ resp[p].status = 402
        /\ resp[p].rl.remaining = 0

\* C7: with the checks of an identity one after the other, a check is denied
\* (with remaining 0) exactly when the window that ends at its time already
\* holds freeRateLimit admitted checks, so no window holds more than
\* freeRateLimit admitted checks of one identity.
C7_AdmissionMonotonicity ==
    /\ \A c \in ClientIds : \A i \in DOMAIN admitted[c] :
          WindowCount(c, admitted[c][i]) <= freeRateLimit
    /\ \A p \in Procs :
          loc[p].rl.present
          => LET earlier == WindowCount(loc[p].clientId, loc[p].now)
                            - (IF loc[p].rl.allowed THEN 1 ELSE 0)
             IN  /\ loc[p].rl.allowed <=> earlier < freeRateLimit
                 /\ ~loc[p].rl.allowed => loc[p].rl.remaining = 0

\* C7 witness: a check is admitted after the window had been full: the
\* identity has more than freeRateLimit admitted checks in all
C7_Witness ==
    \E p \in Procs :
        /\ loc[p].rl.present
        /\ loc[p].rl.allowed
        /\ Len(admitted[loc[p].clientId]) > freeRateLimit

C9_InsufficientBalance ==
    \A p \in Procs :
        (/\ req[p].stripe.kind = "session"
         /\ req[p].stripe.userClient
         /\ req[p].stripe.balance < priceCredit
         /\ ReachedAdmission(p))
        => /\ Events(p) \cap (HandlerEvents \cup {"charge", "put"}) = {}
           /\ pc[p] \in {"rateLimitGet", "rateLimitPut", "done"}
           /\ (pc[p] = "done" /\ "rateLimitFail" \notin Events(p))
              => resp[p].status = 402

\* C9 witness: the rate limiter allowed the check of a user without balance
\* and the request was answered 402 all the same
C9_Witness ==
    \E p \in Procs :
        /\ req[p].stripe.kind = "session"
        /\ req[p].stripe.userClient
        /\ req[p].stripe.balance < priceCredit
        /\ ReachedAdmission(p)
        /\ loc[p].rl.present
        /\ loc[p].rl.allowed
        /\ resp[p].status = 402
        /\ ~resp[p].rl.present

\* C10: a request of an authenticated payer with a positive balance never
\* calls the rate limiter, on the miss, hit and refresh path, and with a
\* balance of at least the price it is never answered 402.
C10_PayersBypassRateLimiter ==
    \A p \in Procs :
        AuthenticatedPayer(req[p].stripe)
        => /\ Events(p) \cap LimiterEvents = {}
           /\ ~loc[p].rl.present
           /\ ~resp[p].rl.present
           /\ req[p].stripe.balance >= priceCredit => resp[p].status # 402

\* C10 witness: the background refresh of a payer's hit called the handler
\* and completed
C10_Witness ==
    \E p \in Procs :
        /\ AuthenticatedPayer(req[p].stripe)
        /\ loc[p].refresh
        /\ "handler" \in Events(p)
        /\ "put" \in Events(p)
        /\ pc[p] = "done"

\* the amounts request p called charge with
ChargedAmounts(p) ==
    {log[p][i].n : i \in {j \in 1..Len(log[p]) : log[p][j].e = "charge"}}

\* C11: charge is called with the number in the response's X-Price header
\* when the header is there and numeric, and with priceCredit otherwise; the
\* header of one response leaves the price of a later request, and the
\* balance its admission is checked against, at priceCredit.
C11_DynamicPricing ==
    \A p \in Procs :
        /\ ChargedAmounts(p) # {}
           => ChargedAmounts(p) =
                 {CASE loc[p].hres.xprice = "3" -> 3
                    [] loc[p].hres.xprice = "0" -> 0
                    [] OTHER -> priceCredit}
        /\ \A q \in Procs :
              (/\ q < p
               /\ loc[q].hres.xprice = "3"
               /\ ChargedAmounts(q) # {}
               /\ req[p].stripe.kind = "session"
               /\ req[p].stripe.userClient
               /\ req[p].stripe.balance >= priceCredit)
              => /\ resp[p].status # 402
                 /\ ChargedAmounts(p) \subseteq {priceCredit}
                    \/ loc[p].hres.xprice = "3"

\* C11 witness: charge was called with the 3 of the earlier response's
\* header and that response delivered; the later request, admitted with a
\* balance below 3, was charged the configured price
C11_Witness ==
    /\ loc[1].hres.xprice = "3"
    /\ ChargedAmounts(1) = {3}
    /\ resp[1].status = 200
    /\ req[2].stripe.kind = "session"
    /\ req[2].stripe.userClient
    /\ req[2].stripe.balance >= priceCredit
    /\ req[2].stripe.balance < 3
    /\ loc[2].hres.xprice = ""
    /\ ChargedAmounts(2) = {priceCredit}
    /\ resp[2].status = 200

\* C12: whatever fails in the pipeline, fetch resolves to a response; its
\* promise is never rejected.
C12_NoExceptionEscapes ==
    \A p \in Procs : resp[p].kind # "rejected"

\* the cache store, the rate limiter or the asset binding failed
StoreFailures == {"kvFail", "rateLimitFail", "assetsFail"}

\* C13: a request for which the billing middleware resolved neither a
\* response nor a session is answered with a 4xx status, and calls neither
\* the handler nor the rate limiter, charge or a cache put (the stores it
\* may read before working).
C13_SessionFailure ==
    \A p \in Procs :
        (/\ req[p].method \in {"GET", "POST"}
         /\ req[p].stripe.kind = "nosession"
         /\ Events(p) \cap StoreFailures = {})
        => /\ Events(p) \cap (HandlerEvents \cup LimiterEvents
                              \cup {"typeError", "charge", "put"}) = {}
           /\ pc[p] = "done"
              => /\ resp[p].kind = "response"
                 /\ resp[p].status \in 400..499

\* request p is a GET by an authenticated payer with a positive balance
\* whose cache lookup found a value
PayerHit(p) ==
    /\ req[p].method = "GET"
    /\ "kvget" \in Events(p)
    /\ Truthy(loc[p].cached)
    /\ AuthenticatedPayer(req[p].stripe)

\* the client of request p was answered the cached value with X-Cache: HIT
DeliveredHit(p) ==
    /\ resp[p].kind = "response"
    /\ resp[p].status = 200
    /\ resp[p].xcache = "HIT"
    /\ resp[p].body = loc[p].cached
    /\ \E i \in 1..Len(log[p]) : log[p][i] = Responded(resp[p])

RefreshAnswers(p) ==
    UNION {{log[p][i].k[j] : j \in 1..Len(log[p][i].k)} :
              i \in {n \in 1..Len(log[p]) : log[p][n].e = "shouldRefresh"}}

\* C15: on a payer's hit the background re-execution is scheduled exactly
\* when the application exports shouldRefresh and it answered ok; it calls
\* the handler, charges the caller of the hit on a 200 and writes the cache.
\* Otherwise the request calls neither the handler nor charge nor a put.
C15_RefreshDecision ==
    \A p \in Procs :
        PayerHit(p)
        => /\ loc[p].refresh <=> (hasShouldRefresh /\ "ok" \in RefreshAnswers(p))
           /\ ~loc[p].refresh
              => Events(p) \cap (HandlerEvents \cup {"typeError", "charge", "put"}) = {}
           /\ \A i \in 1..Len(log[p]) :
                 log[p][i].e = "charge" => log[p][i].k = <<req[p].stripe.user>>
           /\ (loc[p].refresh /\ pc[p] = "done" /\ loc[p].hres.status = 200
               /\ "charge" \in Events(p) /\ resp[p].kind = "response")
              => "put" \in Events(p) \/ "charge" = log[p][Len(log[p])].e

\* C15 witness: shouldRefresh answered ok and the re-execution called the
\* handler, charged the caller and wrote both formats
C15_Witness ==
    \E p \in Procs :
        /\ PayerHit(p)
        /\ "ok" \in RefreshAnswers(p)
        /\ loc[p].refresh
        /\ pc[p] = "done"
        /\ "handler" \in Events(p)
        /\ "charge" \in Events(p)
        /\ Cardinality({i \in 1..Len(log[p]) : log[p][i].e = "put"}) = 2

\* the puts request p has completed
Puts(p) == {i \in 1..Len(log[p]) : log[p][i].e = "put"}

\* C16: when the background refresh of a hit got 200 from the handler and
\* its cache writes have completed, the entry under the key that produced
\* the hit, and its sibling in the other format, hold the new output and the
\* time of the refresh.
C16_RefreshOverwritesHitEntry ==
    \A p \in Procs :
        (/\ PayerHit(p)
         /\ loc[p].refresh
         /\ loc[p].hres.status = 200
         /\ pc[p] = "done"
         /\ Cardinality(Puts(p)) = 2)
        => LET md == LookupKey(req[p], "md")
               html == LookupKey(req[p], "html")
           IN  /\ md \in DOMAIN kv /\ html \in DOMAIN kv
               /\ kv[md].value = loc[p].hres.body
               /\ kv[html].value = markdownToHtml(loc[p].hres.body)
               /\ kv[md].metadata.timestamp = loc[p].putTime
               /\ kv[html].metadata.timestamp = loc[p].putTime

\* the cache keys request p looked up
LookedUp(p) ==
    {log[p][i].k : i \in {n \in 1..Len(log[p]) : log[p][n].e = "kvget"}}

\* the same entries, each as many times, in some order
IsPermutation(s, t) ==
    /\ Len(s) = Len(t)
    /\ \A x \in QueryPairs :
          Cardinality({i \in 1..Len(s) : s[i] = x})
          = Cardinality({i \in 1..Len(t) : t[i] = x})

\* C17: two requests of the same path and format whose query strings hold
\* the same entries in a different order look up the same cache key.
C17_KeyOrderIndependence ==
    \A p, q \in Procs :
        (/\ req[p].pathname = req[q].pathname
         /\ loc[p].ext = loc[q].ext
         /\ IsPermutation(req[p].query, req[q].query))
        => \A k1 \in LookedUp(p) : \A k2 \in LookedUp(q) : k1 = k2

\* request p was a GET miss: the handler answered 200, the client got the
\* response with X-Cache: MISS and both cache writes have completed
CompletedMiss(p) ==
    /\ req[p].method = "GET"
    /\ "handler" \in Events(p)
    /\ loc[p].hres.status = 200
    /\ resp[p].kind = "response"
    /\ resp[p].xcache = "MISS"
    /\ pc[p] = "done"
    /\ Cardinality(Puts(p)) = 2

\* request q, started after p, has looked the cache up and the call of
\* shouldRefresh, if any, did not throw
LaterLookup(p, q) ==
    /\ p < q
    /\ req[q].method = "GET"
    /\ "kvget" \in Events(q)
    /\ "shouldRefreshThrow" \notin Events(q)

\* C18: after a GET miss on a path without a format suffix, whatever body the
\* handler answered, the next GET of the same path, query and format is
\* answered with X-Cache: HIT and the body of the miss response.
C18_RepeatGetIsHit ==
    \A p, q \in Procs :
        (/\ CompletedMiss(p)
         /\ Len(req[p].pathname) = 1
         /\ LaterLookup(p, q)
         /\ req[q].pathname = req[p].pathname
         /\ req[q].query = req[p].query
         /\ loc[q].ext = loc[p].ext)
        => /\ resp[q].kind = "response"
           /\ resp[q].xcache = "HIT"
           /\ resp[q].body = resp[p].body

\* C19: after a GET miss on /x, /x.md or /x.html with a body to cache, a
\* later GET of any of the three, in either format, is a cache hit.
C19_SuffixesShareEntries ==
    \A p, q \in Procs :
        (/\ CompletedMiss(p)
         /\ loc[p].hres.body # <<>>
         /\ LaterLookup(p, q)
         /\ stripExtension(req[q].pathname) = stripExtension(req[p].pathname)
         /\ req[q].query = req[p].query)
        => /\ resp[q].kind = "response"
           /\ resp[q].xcache = "HIT"
           /\ resp[q].body = IF loc[q].ext = "html"
                             THEN markdownToHtml(loc[p].hres.body)
                             ELSE loc[p].hres.body

\* C20: every response fetch returns, from whichever terminal state, carries
\* the cross-origin headers.
C20_CorsOnEveryResponse ==
    \A p \in Procs : resp[p].kind = "response" => resp[p].cors

\* C20 witness: a cache hit reached the client with the cross-origin headers
C20_Witness ==
    \E p \in Procs :
        /\ pc[p] = "done"
        /\ resp[p].kind = "response"
        /\ resp[p].xcache = "HIT"
        /\ resp[p].cors

\* the positions of the calls of kind e in the log of request p
Calls(p, e) == {i \in 1..Len(log[p]) : log[p][i].e = e}

\* request p went down the miss path and its handler call returned
MissPath(p) == ~loc[p].refresh /\ "handler" \in Events(p)

\* C21: on the miss path the handler call has completed before charge is
\* called and the charge has completed before the response is returned: a
\* 200 of the handler for a session with a user is never returned with the
\* charge still to come.
C21_ChargeBeforeResponse ==
    \A p \in Procs :
        MissPath(p)
        => /\ \A c \in Calls(p, "charge") :
                 /\ \E h \in Calls(p, "handler") : h < c
                 /\ \A r \in Calls(p, "respond") : c < r
           /\ (resp[p].kind = "response" /\ resp[p].status = 200
               /\ req[p].stripe.user # "")
              => Calls(p, "charge") # {}

\* C21 witness: handler, charge and response in this order, the cache writes
\* after them
C21_Witness ==
    \E p \in Procs :
        /\ MissPath(p)
        /\ pc[p] = "done"
        /\ \E h \in Calls(p, "handler") : \E c \in Calls(p, "charge") :
             \E r \in Calls(p, "respond") : \E w \in Calls(p, "put") :
                h < c /\ c < r /\ r < w

\* C22: when charge was called after a 200 of the handler on the miss path,
\* whether it debited, declined or failed, the client receives the handler's
\* content with the handler's status and both cache writes are scheduled.
C22_ChargeFailureNonFatal ==
    \A p \in Procs :
        (MissPath(p) /\ Calls(p, "charge") # {})
        => /\ resp[p].kind = "response"
           /\ resp[p].status = loc[p].hres.status
           /\ resp[p].body = IF loc[p].ext = "html"
                             THEN markdownToHtml(loc[p].hres.body)
                             ELSE loc[p].hres.body
           /\ {log[p][i].k : i \in Calls(p, "put")}
               \cup {writeKey(p, ext) : ext \in loc[p].pending}
              = {writeKey(p, "md"), writeKey(p, "html")}

\* C23: the path the handler is called with is the path of the request
\* without its format suffix.
C23_HandlerSeesNormalizedPath ==
    \A p \in Procs : \A i \in Calls(p, "handler") \cup Calls(p, "handlerThrow") :
        log[p][i].k = stripExtension(req[p].pathname)

\* C24: on the miss path and on the background refresh, the handler is called
\* and the caller charged for an authenticated caller only with a balance of
\* at least the configured price.
C24_AdmissionBeforeEveryHandlerCall ==
    \A p \in Procs :
        (/\ req[p].stripe.kind = "session"
         /\ req[p].stripe.userClient
         /\ Events(p) \cap (HandlerEvents \cup {"charge"}) # {})
        => req[p].stripe.balance >= priceCredit

\* C25: charge is called only for a session whose user-client flag is set; a
\* caller admitted as anonymous through the rate limiter is never charged.
C25_ChargeOnlyUserClients ==
    \A p \in Procs :
        "charge" \in Events(p)
        => /\ req[p].stripe.kind = "session"
           /\ req[p].stripe.userClient

\* the times of the checks of identity c answered allowed: true that are
\* inside the window ending at time t
Surviving(c, t) ==
    {admitted[c][i] : i \in {j \in DOMAIN admitted[c] :
                                 admitted[c][j] > t - resetWindow}}

SetMin(S) == CHOOSE m \in S : \A n \in S : m <= n

\* the answer of the rate limiter that a response carries is a denial
IsDenial(rl) == rl.present /\ ~rl.allowed

\* C26: a denied check reports as resetTime the oldest surviving timestamp
\* plus the window length; as long as no check of the identity has been
\* allowed since, a check before that resetTime is denied and a check at or
\* after it is allowed.
C26_ResetTimeExact ==
    [][\A p \in Procs :
          LET c == loc[p].clientId
              rl == resp'[p].rl
              answered == pc'[p] = "rateLimitPut" \/ IsDenial(rl)
          IN  (pc[p] = "rateLimitGet" /\ answered) =>
                /\ IsDenial(rl) =>
                     /\ Surviving(c, DateNow) # {}
                     /\ rl.resetTime = SetMin(Surviving(c, DateNow)) + resetWindow
                /\ lastDenied[c] # 0 =>
                     (IsDenial(rl) <=> DateNow < lastDenied[c])]_vars

\* a check at exactly the resetTime of an earlier denial is allowed
C26_Witness ==
    /\ pc[1] = "rateLimitPut"
    /\ lastDenied[loc[1].clientId] # 0
    /\ loc[1].now = lastDenied[loc[1].clientId]

\* C27: a denied check leaves the stored window of the identity as it was
\* and reports the resetTime of the denial before it; the stored window
\* changes only when a check is allowed, to the pruned list with the current
\* time appended, and never holds more than freeRateLimit timestamps.
C27_DeniedLeavesWindow ==
    [][/\ \A p \in Procs :
             pc[p] = "rateLimitGet" =>
               /\ storage' = storage
               /\ (IsDenial(resp'[p].rl) /\ lastDenied[loc[p].clientId] # 0) =>
                     resp'[p].rl.resetTime = lastDenied[loc[p].clientId]
       /\ \A c \in ClientIds :
             storage'[c] # storage[c] =>
               /\ \E p \in Procs :
                     /\ pc[p] = "rateLimitPut"
                     /\ loc[p].clientId = c
                     /\ storage'[c] =
                          Append(SelectSeq(storage[c],
                                           LAMBDA t : t > loc[p].now - resetWindow),
                                 loc[p].now)
               /\ Len(storage'[c]) <= freeRateLimit]_vars

\* a check was denied later than every stored timestamp, and the stored
\* window is the full window it found
C27_Witness ==
    /\ pc[1] = "done"
    /\ IsDenial(resp[1].rl)
    /\ storage[loc[1].clientId] = loc[1].recent
    /\ Len(loc[1].recent) = freeRateLimit
    /\ \A i \in DOMAIN loc[1].recent : loc[1].recent[i] < loc[1].now

\* request q, started after p, found a value in the cache
LaterHit(p, q) ==
    /\ p < q
    /\ "kvget" \in Events(q)
    /\ Truthy(loc[q].cached)

\* what an entry of format ext holds of a handler body
Rendering(ext, body) == IF ext = "html" THEN markdownToHtml(body) ELSE body

\* C28: the value a request finds in the cache was written by a request of
\* the same configuration version, is the entry of the format the request
\* resolved to, and was written under the path and the sorted query the
\* request resolved to; a request of another version than the writer's
\* finds nothing.
C28_VersionAndFormatIsolation ==
    \A p, q \in Procs :
        /\ LaterHit(p, q)
           => /\ Puts(p) # {}
              /\ loc[q].version = loc[p].version
              /\ loc[q].cached = Rendering(loc[q].ext, loc[p].hres.body)
              /\ loc[q].pathname = req[p].pathname
              /\ SortParams(req[q].query) = SortParams(req[p].query)
        /\ (p < q /\ "kvget" \in Events(q) /\ loc[q].version # loc[p].version)
           => ~Truthy(loc[q].cached)

\* after a completed miss the version was changed, and the same request
\* found nothing although the entries of the earlier version are stored
C28_Witness ==
    /\ CompletedMiss(1)
    /\ Len(req[1].pathname) = 1
    /\ "kvget" \in Events(2)
    /\ req[2].pathname = req[1].pathname
    /\ req[2].query = req[1].query
    /\ loc[2].ext = loc[1].ext
    /\ loc[2].version # loc[1].version
    /\ ~Truthy(loc[2].cached)
    /\ loc[1].hres.body # <<>>
    /\ writeKey(1, loc[1].ext) \in DOMAIN kv

\* C29: when two requests of the same path and query missed concurrently,
\* both handler calls answered 200 with different bodies and all four cache
\* puts have completed, the rendered entry is the rendering of the canonical
\* entry.
C29_ConcurrentMissesConsistentPair ==
    (/\ \A p \in Procs : MissPath(p) /\ pc[p] = "done" /\ Cardinality(Puts(p)) = 2
     /\ req[1].pathname = req[2].pathname
     /\ req[1].query = req[2].query
     /\ loc[1].hres.body # loc[2].hres.body)
    => LET md == writeKey(1, "md")
           html == writeKey(1, "html")
       IN  /\ md \in DOMAIN kv /\ html \in DOMAIN kv
           /\ kv[html].value = markdownToHtml(kv[md].value)

\* C30: a request of a method other than GET never causes a cache put.
C30_OnlyGetPopulatesCache ==
    \A p \in Procs : req[p].method # "GET" => Puts(p) = {}

\* C31: the amount charge is called with is not negative and not more than
\* the balance the session of the request showed, and no balance is below
\* zero.
C31_NeverChargesMoreThanBalance ==
    /\ \A p \in Procs : \A a \in ChargedAmounts(p) :
          a >= 0 /\ a <= req[p].stripe.balance
    /\ \A u \in Users : balance[u] >= 0

====
